---- MODULE Spec2Model ----
(***************************************************************************)
(* Marketo -> Alfresco incremental sync (sync.ts, marketo/client.ts,       *)
(* alfresco/client.ts).  One sync() run is a sequence of awaited steps;    *)
(* the clock and the Marketo source move on their own between the steps.   *)
(* utils/retry.ts is studied on its own: RetrySpec follows one retry()     *)
(* call, ClassifySpec one isRetryableError() call.                         *)
(***************************************************************************)
EXTENDS Bags, FiniteSets, Integers, Sequences, TLC

\* ---- bounds of the model ----
NumItems == 2
MaxClock == 2
MaxRuns == 2
\* failing source / target calls over the whole behaviour
MaxFaults == 2
\* edits made to the source over the whole behaviour
MaxUpdates == 1
\* page size of the listing and batch size of processBatch, scaled down
maxReturn == 1
batchSize == 1

\* ---- program constants ----
lookbackDays == 90

\* an optional value is the empty set (null, undefined) or a singleton
Null == {}
Some(v) == {v}
Val(x) == CHOOSE v \in x : TRUE
Ids == 1..NumItems

\* ---- pure helpers --------------------------------------------------------

\* utils/date.ts: a Date is an instant (integer), an ISO string is a tagged value
\* a format that keeps the time of day and drops the date
toISOString_timeOnly(d) == <<"iso", d % 2>>
toISOString(d) == <<"iso", d>>
newDate(s) == s[2]
getDaysAgo(nowv, days) == nowv - days

\* the reserved characters of the replace() calls in processEmail
Reserved == {"/", "\\", ":", "*", "?", "\"", "<", ">", "|"}

\* String.replace with the pattern but without its g flag: the first match only
sanitize_first(s) ==
  [k \in DOMAIN s |->
     IF s[k] \in Reserved /\ (\A j \in 1..(k - 1) : s[j] \notin Reserved) THEN "-" ELSE s[k]]
sanitize(s) == [k \in DOMAIN s |-> IF s[k] \in Reserved THEN "-" ELSE s[k]]

\* static fields of the source emails (name, createdAt, folder)
emailName(id) == IF id = 1 THEN <<"a", "/", "b">> ELSE <<"c", ":", "d">>
emailCreated(id) == IF id = 1 THEN [y |-> 2024, m |-> 1] ELSE [y |-> 2024, m |-> 12]
emailFolder(id) == IF id = 1 THEN Some(<<"Q", "/", "1">>) ELSE Null

toPathFormat(d) ==
  [year |-> ToString(d.y),
   month |-> IF d.m < 10 THEN "0" \o ToString(d.m) ELSE ToString(d.m)]

\* email.folder?.folderName without the fallback
campaignNameOf_blank(folder) == IF folder # Null THEN Val(folder) ELSE <<>>
\* line 114: email.folder?.folderName || 'Uncategorized'; the empty string is falsy
campaignNameOf(folder) ==
  IF folder # Null /\ Val(folder) # <<>> THEN Val(folder) ELSE <<"Uncategorized">>

campaignName(id) == campaignNameOf(emailFolder(id))

folderPath(id) ==
  <<toPathFormat(emailCreated(id)).year,
    toPathFormat(emailCreated(id)).month,
    sanitize(campaignName(id))>>

emailFileName(id) == <<id, "-", sanitize(emailName(id)), ".html">>
metadataFileName(id) == <<id, "-", sanitize(emailName(id)), "-metadata.json">>

\* The same strings character by character. A string is a sequence of pieces:
\* one piece per character of a label or display name, and one piece for each
\* run of text the code itself writes (the digits of the year, of the month and
\* of the id, 'Uncategorized', '.html', '-metadata.json'), none of which holds
\* a reserved character.
\* line 117: `${year}/${month}/${sanitizedCampaignName}`
folderPathString(created, folder) ==
  <<toPathFormat(created).year, "/", toPathFormat(created).month, "/">>
    \o sanitize(campaignNameOf(folder))
\* line 123 and line 165
emailFileNameOf(id, name) == <<ToString(id), "-">> \o sanitize(name) \o <<".html">>
metadataFileNameOf(id, name) ==
  <<ToString(id), "-">> \o sanitize(name) \o <<"-metadata.json">>

\* String.prototype.split(sep)
RECURSIVE split(_, _)
split(s, sep) ==
  IF \A k \in DOMAIN s : s[k] # sep THEN <<s>>
  ELSE LET k == CHOOSE i \in DOMAIN s : s[i] = sep /\ \A j \in 1..(i - 1) : s[j] # sep
       IN <<SubSeq(s, 1, k - 1)>> \o split(SubSeq(s, k + 1, Len(s)), sep)
\* AlfrescoClient.ensureFolderPath: path.split('/').filter(p => p.length > 0)
pathParts(path) == SelectSeq(split(path, "/"), LAMBDA p : Len(p) > 0)

\* Array.prototype.slice(i, j) on a 0-based array, as a 1-based sequence
\* (a negative index counts from the end; an index outside the array is clipped)
sliceIndex(x, n) == IF x < 0 THEN (IF n + x < 0 THEN 0 ELSE n + x) ELSE (IF x < n THEN x ELSE n)
slice(s, i, j) == SubSeq(s, sliceIndex(i, Len(s)) + 1, sliceIndex(j, Len(s)))

idsOf(s) == [k \in DOMAIN s |-> s[k].id]
Range(s) == {s[k] : k \in DOMAIN s}

\* ---- state ---------------------------------------------------------------
VARIABLES
  clock,        \* wall clock, the value of now()
  src,          \* Marketo: id -> [updatedAt, html]
  nfaults,      \* number of failed source / target calls so far
  nupdates,     \* number of edits made to the source so far
  folders,      \* Alfresco: folder paths that exist under the base path
  nodes,        \* Alfresco: bag of <<folder path, file name>>
  stateNodes,   \* Alfresco: the '.sync-state.json' nodes under the root (the
                \* mkto:lastSyncTimestamp property of each, Null when it has none)
  pc,           \* position of sync()
  startTime,    \* sync: const startTime
  sinceDate,    \* sync: sinceDate
  offset,       \* getEmailsSince: offset
  allEmails,    \* getEmailsSince: allEmails
  emails,       \* sync: emails
  bi,           \* processBatch: i
  bk,           \* processBatch: position inside the current batch (1-based)
  cnt,          \* processBatch: processed, failed, skipped, failedIds
  res,          \* processEmail: the value it returned for the current email
  result,       \* sync: result
  returned,     \* the SyncResult the last finished run returned, or Null
  thrown,       \* the error the last finished run raised, or Null
  runs,         \* number of runs started
  hist,         \* observations of the current (or last finished) run
  prev,         \* observations of the run before it
  rt            \* utils/retry.ts: the state of one retry() call, or of one
                \* isRetryableError() call (phase "none" while sync() is studied)

vars == <<clock, src, nfaults, nupdates, folders, nodes, stateNodes, pc, startTime,
          sinceDate, offset, allEmails, emails, bi, bk, cnt, res, result, returned, thrown,
          runs, hist, prev, rt>>

target == <<folders, nodes, stateNodes>>
locals == <<startTime, sinceDate, offset, allEmails, emails, bi, bk, cnt, res, result>>
env == <<clock, src, nupdates>>

\* a result that started with a skipped email
EmptyResult_skipped(st) ==
  [totalEmails |-> 0, processedEmails |-> 0, failedEmails |-> 0, skippedEmails |-> 1,
   failedEmailIds |-> <<>>, startTime |-> st, endTime |-> st]

\* sync, lines 256-265
EmptyResult(st) ==
  [totalEmails |-> 0, processedEmails |-> 0, failedEmails |-> 0, skippedEmails |-> 0,
   failedEmailIds |-> <<>>, startTime |-> st, endTime |-> st]

EmptyCnt == [processed |-> 0, failed |-> 0, skipped |-> 0, failedIds |-> <<>>]

NoResult == [success |-> FALSE, node |-> Null]

\* observations of one run: what was written, which calls failed, what each email came to
EmptyHist ==
  [saved |-> Null,        \* timestamp written to the marker by this run
   cand |-> Null,         \* ids of the candidates, once getEmailsSince has returned
   complete |-> FALSE,    \* ... and it returned after a page without continuation signal
   listError |-> Null,    \* the error the listing request raised
   faulty |-> FALSE,      \* a source / target call of this run failed
   lookupErr |-> FALSE,   \* the nodeExists lookup of the current email failed
   chg |-> FALSE,         \* the source was edited while this run was under way
   chgAfter |-> FALSE,    \* the source was edited after this run ended
   changed |-> {},        \* at the end: ids whose updatedAt lies between start and end
   started |-> <<>>,      \* ids whose payload fetch has started
   log |-> <<>>,          \* [id, r, step, lookupErr] per processEmail return
   uploads |-> 0,         \* nodes created by processEmail
   fetch |-> "none",      \* how the payload fetch of the current email ended
   html |-> FALSE,        \* ... and whether the source held an HTML body for it
   calls |-> <<>>,        \* the target calls made for the current email, in order
   delays |-> <<>>,       \* the inter-item delays processBatch has slept, in ms
   exit |-> Null,         \* the exit code of the process, once the run has ended
   listed |-> <<>>,       \* the emails of the pages fetched so far, as they were listed
   loadDone |-> FALSE,    \* loadSyncState has returned
   loadErr |-> FALSE,     \* a target call of loadSyncState failed
   loaded |-> Null,       \* the lastSyncTimestamp that loadSyncState returned
   nowAtLoad |-> 0,       \* the clock when the lower bound was computed
   since |-> 0,           \* the lower bound passed to getEmailsSince
   batchDone |-> FALSE,   \* processBatch has returned
   batchResult |-> EmptyCnt,  \* ... with these counters
   saveRaised |-> FALSE,  \* a target call inside saveSyncState raised
   marker |-> <<>>,       \* the calls of loadSyncState and saveSyncState, in order
   t0 |-> <<{}, EmptyBag, <<>>>>]  \* the target when the run started

\* what a logged processEmail return came to
Outcome(e) ==
  IF ~e.r.success THEN "Failed"
  ELSE IF e.step = "exists" THEN "AlreadyExists" ELSE "Uploaded"

FailedIdsOf(log) == {log[k].id : k \in {j \in DOMAIN log : Outcome(log[j]) = "Failed"}}

\* what is remembered of a run when the next one starts
Summary(h, n, ret) ==
  [n |-> n, saved |-> h.saved, failed |-> FailedIdsOf(h.log), changed |-> h.changed,
   faulty |-> h.faulty, chg |-> h.chg, chgAfter |-> h.chgAfter,
   ok |-> ret # Null /\ FailedIdsOf(h.log) = {}]

SyncInit ==
  /\ clock = 0
  /\ src \in [Ids -> [updatedAt : {toISOString(0)}, html : BOOLEAN]]
  /\ nfaults = 0
  /\ nupdates = 0
  /\ folders = {}
  /\ nodes = EmptyBag
  /\ stateNodes \in {<<>>, <<Null>>}
  /\ pc = "idle"
  /\ startTime = 0
  /\ sinceDate = 0
  /\ offset = 0
  /\ allEmails = <<>>
  /\ emails = <<>>
  /\ bi = 0
  /\ bk = 0
  /\ cnt = EmptyCnt
  /\ res = NoResult
  /\ result = EmptyResult(0)
  /\ returned = Null
  /\ thrown = Null
  /\ runs = 0
  /\ hist = EmptyHist
  /\ prev = Summary(EmptyHist, 0, Null)

\* no retry() call is under study
RtNone == [phase |-> "none"]

Init ==
  /\ SyncInit
  /\ rt = RtNone

\* ---- the environment -----------------------------------------------------

\* sync() reads the clock and the listing only at these positions; what the
\* environment does while sync() is elsewhere is seen at the next of them
EnvPoints == {"idle", "list", "save"}

\* time passes
Tick ==
  /\ pc \in EnvPoints
  /\ clock < MaxClock
  /\ clock' = clock + 1
  /\ UNCHANGED <<src, nfaults, nupdates, target, pc, locals, returned, thrown, runs, hist,
                 prev>>
  /\ UNCHANGED rt

\* an email is edited in Marketo: its updatedAt becomes the current instant
UpdateItem ==
  /\ pc \in EnvPoints
  /\ nupdates < MaxUpdates
  /\ nupdates' = nupdates + 1
  /\ \E i \in Ids :
       /\ newDate(src[i].updatedAt) < clock
       /\ src' = [src EXCEPT ![i].updatedAt = toISOString(clock)]
  /\ hist' = IF pc = "idle" THEN [hist EXCEPT !.chgAfter = TRUE]
             ELSE [hist EXCEPT !.chg = TRUE]
  /\ UNCHANGED <<clock, nfaults, target, pc, locals, returned, thrown, runs, prev>>
  /\ UNCHANGED rt

\* a call may fail while the budget of failures lasts
MayFail == nfaults < MaxFaults
Oks == IF MayFail THEN BOOLEAN ELSE {TRUE}
Fault(failed) == nfaults' = nfaults + (IF failed THEN 1 ELSE 0)

\* ---- sync.ts -------------------------------------------------------------

\* an exit code that reported success whatever happened
exitCode_zero(ret, err) == 0

\* lines 350-371: the exit code main gives for the outcome of sync(). An error
\* raised while the then callback reads the result goes to the chained catch.
exitCode(ret, err) ==
  IF err # Null \/ ret = Null THEN 1
  ELSE IF Len(Val(ret).failedEmailIds) > 0 THEN 1 ELSE 0

\* the run ends: sync() returns ret, or raises err; its locals are gone
Finish(ret, err, h) ==
  /\ pc' = "idle"
  /\ sinceDate' = 0
  /\ offset' = 0
  /\ allEmails' = <<>>
  /\ emails' = <<>>
  /\ bi' = 0
  /\ bk' = 0
  /\ cnt' = EmptyCnt
  /\ res' = NoResult
  /\ result' = EmptyResult(startTime)
  /\ returned' = ret
  /\ thrown' = err
  /\ hist' = [h EXCEPT !.lookupErr = FALSE, !.fetch = "none", !.html = FALSE,
                       !.calls = <<>>,
                       !.exit = Some(exitCode(ret, err)),
                       !.changed = {i \in Ids : /\ startTime <= newDate(src[i].updatedAt)
                                                /\ newDate(src[i].updatedAt) <= clock}]
  /\ UNCHANGED prev

\* a catch block that swallowed the error
syncCatch_swallow(e) == Null

\* sync, lines 341-346: the catch block raises the error it caught
syncCatch(e) == Some(e)

\* sync, lines 252-265: the start instant is taken first
syncStart ==
  /\ pc = "idle"
  /\ runs < MaxRuns
  /\ runs' = runs + 1
  /\ startTime' = clock
  /\ result' = EmptyResult(clock)
  /\ returned' = Null
  /\ thrown' = Null
  /\ prev' = Summary(hist, runs, returned)
  /\ hist' = [EmptyHist EXCEPT !.t0 = target]
  /\ pc' = "load"
  /\ UNCHANGED <<env, nfaults, target, sinceDate, offset, allEmails, emails, bi, bk, cnt,
                 res>>
  /\ UNCHANGED rt

\* a catch block that raised the error again
loadCatch_rethrow(e) == Some(e)

\* loadSyncState, lines 45-48: the error is logged, nothing is raised
loadCatch(e) == Null

\* loadSyncState, lines 32-44: the stored timestamp; Null when getRootNodeId
\* raised, when nodeExists found no marker (or its lookup failed), or when the
\* marker has no timestamp property
loadSyncState(rootOk, existsOk) ==
  IF ~rootOk THEN Null
  ELSE LET stateNode == IF existsOk /\ stateNodes # <<>> THEN Some(stateNodes[1]) ELSE Null
       IN IF stateNode # Null /\ Val(stateNode) # Null THEN Val(stateNode) ELSE Null

\* the calls of loadSyncState that fail: none, getRootNodeId, or the nodeExists lookup
LoadOutcomes ==
  {<<TRUE, TRUE>>} \cup (IF MayFail THEN {<<FALSE, TRUE>>, <<TRUE, FALSE>>} ELSE {})

\* a lower bound that ignored the stored timestamp
sinceOf_lookback(lastSyncTimestamp, nowv) == getDaysAgo(nowv, lookbackDays)

\* sync, lines 285-296
sinceOf(lastSyncTimestamp, nowv) ==
  IF lastSyncTimestamp # Null THEN newDate(Val(lastSyncTimestamp))
  ELSE getDaysAgo(nowv, lookbackDays)

\* sync, lines 282-296
syncLoad ==
  /\ pc = "load"
  /\ \E o \in LoadOutcomes :
       LET failed == o # <<TRUE, TRUE>>
           raised == IF ~o[1] THEN loadCatch("TargetError") ELSE Null
           syncState == loadSyncState(o[1], o[2])
           since == sinceOf(syncState, clock)
           h == [hist EXCEPT !.faulty = @ \/ failed, !.loadErr = failed,
                             !.marker = Append(@, "loadSyncState"),
                             !.loadDone = TRUE, !.loaded = syncState,
                             !.nowAtLoad = clock, !.since = since]
       IN /\ Fault(failed)
          /\ IF raised # Null
               THEN Finish(Null, syncCatch(Val(raised)), h)
               ELSE /\ sinceDate' = since
                    /\ hist' = h
                    /\ pc' = "list"
                    /\ UNCHANGED <<offset, allEmails, emails, bi, bk, cnt, res, result,
                                   returned, thrown, prev>>
  /\ UNCHANGED <<env, target, startTime, runs>>
  /\ UNCHANGED rt

\* ---- marketo/client.ts: getEmailsSince -----------------------------------

\* the page of the listing at offset off: the emails as Marketo holds them now
pageAt(off) ==
  [k \in 1..((IF off + maxReturn < NumItems THEN off + maxReturn ELSE NumItems) - off)
     |-> [id |-> off + k, updatedAt |-> src[off + k].updatedAt]]

moreResult(off) == off + maxReturn < NumItems

\* a filter that dropped the emails updated exactly at since
recentEmails_strict(page, since) ==
  SelectSeq(page, LAMBDA e : newDate(e.updatedAt) > since)

\* lines 359-363: keep the emails updated at or after since
RECURSIVE recentEmails(_, _)
recentEmails(page, since) ==
  IF page = <<>> THEN <<>>
  ELSE (IF newDate(Head(page).updatedAt) >= since THEN <<Head(page)>> ELSE <<>>)
       \o recentEmails(Tail(page), since)

\* sync, lines 300-318, once getEmailsSince has returned list
afterListing(list, h) ==
  IF Len(list) = 0
    THEN Finish(Some([result EXCEPT !.totalEmails = 0, !.endTime = clock]), Null,
                [h EXCEPT !.cand = Some({})])
    ELSE /\ emails' = list
         /\ result' = [result EXCEPT !.totalEmails = Len(list)]
         /\ pc' = "fetch"
         /\ sinceDate' = sinceDate
         /\ offset' = offset + maxReturn
         /\ allEmails' = list
         /\ bi' = 0
         /\ bk' = 1
         /\ cnt' = EmptyCnt
         /\ res' = res
         /\ hist' = [h EXCEPT !.cand = Some(Range(idsOf(list)))]
         /\ UNCHANGED <<returned, thrown, prev>>

\* one pass of the while loop: the page is fetched and filtered
getEmailsPage ==
  /\ pc = "list"
  /\ LET recent == recentEmails(pageAt(offset), sinceDate)
         h == [hist EXCEPT !.listed = @ \o pageAt(offset)]
     IN IF moreResult(offset)
          THEN /\ allEmails' = allEmails \o recent
               /\ offset' = offset + maxReturn
               /\ pc' = "list"
               /\ hist' = h
               /\ UNCHANGED <<sinceDate, emails, bi, bk, cnt, res, result, returned, thrown,
                              prev>>
          ELSE afterListing(allEmails \o recent, [h EXCEPT !.complete = TRUE])
  /\ UNCHANGED <<env, nfaults, target, startTime, runs>>
  /\ UNCHANGED rt

\* the response is unsuccessful or has no result: the loop breaks (lines 354-357)
getEmailsBreak ==
  /\ pc = "list"
  /\ MayFail
  /\ Fault(TRUE)
  /\ afterListing(allEmails, [hist EXCEPT !.faulty = TRUE])
  /\ UNCHANGED <<env, target, startTime, runs>>
  /\ UNCHANGED rt

\* the request raises (authentication failed, or the retries are used up):
\* getEmailsSince raises, and so does sync (lines 341-346)
getEmailsRaise ==
  /\ pc = "list"
  /\ MayFail
  /\ Fault(TRUE)
  /\ \E e \in {"AuthFailed", "ApiError"} :
       Finish(Null, syncCatch(e), [hist EXCEPT !.faulty = TRUE, !.listError = Some(e)])
  /\ UNCHANGED <<env, target, startTime, runs>>
  /\ UNCHANGED rt

\* ---- sync.ts: processEmail, one awaited call per step -------------------

\* a loop that walked the list from its end
email_rev == emails[Len(emails) + 1 - (bi + bk)]

\* processBatch, line 217 and 225: the email the inner loop is at
batch == slice(emails, bi, bi + batchSize)
email == batch[bk]

nodeKey(id) == <<folderPath(id), emailFileName(id)>>

\* a second upload that went to the name of the first
metaKey_html(id) == <<folderPath(id), emailFileName(id)>>

metaKey(id) == <<folderPath(id), metadataFileName(id)>>

\* processEmail returns r for the current email; what it came to is observed
processEmailReturns(r, step, h) ==
  /\ res' = r
  /\ hist' = [h EXCEPT !.log = Append(@, [id |-> email.id, r |-> r, step |-> step,
                                          lookupErr |-> h.lookupErr])]
  /\ pc' = "count"

\* an email without content that was passed over as a success
noContent_skipped == [success |-> TRUE, node |-> Null]

\* line 106: no content
noContent == [success |-> FALSE, node |-> Null]

\* a catch block that reported success
catchResult_ok == [success |-> TRUE, node |-> Null]

\* lines 193-199: the catch block of processEmail
catchResult == [success |-> FALSE, node |-> Null]

\* MarketoClient.getEmailContent: the content, or null when the request raised
getEmailContent(id, o) ==
  IF o = "ok" THEN Some([id |-> id, htmlContent |-> src[id].html]) ELSE Null

\* a check that let an email without HTML body pass
hasContent_noBodyCheck(content) == content # Null

\* line 104: the content is there and has an HTML body
hasContent(content) == content # Null /\ Val(content).htmlContent

\* lines 102-107
processEmailFetch ==
  /\ pc = "fetch"
  /\ \E o \in {"ok"} \cup (IF MayFail THEN {"AuthFailed", "ApiError"} ELSE {}) :
       LET content == getEmailContent(email.id, o)
           h == [hist EXCEPT !.started = Append(@, email.id),
                             !.lookupErr = FALSE,
                             !.fetch = o, !.html = src[email.id].html, !.calls = <<>>,
                             !.faulty = @ \/ o # "ok"]
       IN /\ Fault(o # "ok")
          /\ IF ~hasContent(content)
               THEN processEmailReturns(noContent,
                                        IF o = "AuthFailed" THEN "auth" ELSE "payload", h)
               ELSE /\ pc' = "ensure"
                    /\ hist' = h
                    /\ UNCHANGED res
  /\ UNCHANGED <<env, target, startTime, sinceDate, offset, allEmails, emails, bi, bk, cnt,
                 result, returned, thrown, runs, prev>>
  /\ UNCHANGED rt

\* AlfrescoClient.ensureFolderPath: the folders that exist once the first n
\* segments of path have been looked up and created where missing
ensureFolderPath(path, n) == folders \cup {SubSeq(path, 1, j) : j \in 1..n}

\* lines 109-120; the call fails at the base path (n = 0) or at segment n + 1
processEmailEnsure ==
  /\ pc = "ensure"
  /\ LET path == folderPath(email.id)
         h == [hist EXCEPT !.calls = Append(@, <<"ensureFolderPath", path>>)]
     IN \/ /\ folders' = ensureFolderPath(path, Len(path))
           /\ pc' = "exists"
           /\ hist' = h
           /\ UNCHANGED <<res, nfaults>>
        \/ /\ MayFail
           /\ Fault(TRUE)
           /\ \E n \in 0..(Len(path) - 1) :
                /\ folders' = ensureFolderPath(path, n)
                /\ processEmailReturns(catchResult, "target",
                                       [h EXCEPT !.faulty = TRUE])
  /\ UNCHANGED <<env, nodes, stateNodes, startTime, sinceDate, offset, allEmails, emails,
                 bi, bk, cnt, result, returned, thrown, runs, prev>>
  /\ UNCHANGED rt

\* an existence check that never found anything
nodeExists_blind(key, ok) == Null

\* AlfrescoClient.nodeExists: the node, or null when there is none or the lookup failed
nodeExists(key, ok) ==
  IF ok /\ CopiesIn(key, nodes) > 0 THEN Some(key) ELSE Null

\* a return that lost the node that was found
existsResult_noNode(existingNode) == [success |-> TRUE, node |-> Null]

\* line 131
existsResult(existingNode) == [success |-> TRUE, node |-> existingNode]

\* lines 122-132
processEmailExists ==
  /\ pc = "exists"
  /\ \E ok \in Oks :
       LET existingNode == nodeExists(nodeKey(email.id), ok)
           h == [hist EXCEPT !.faulty = @ \/ ~ok, !.lookupErr = ~ok,
                             !.calls = Append(@, <<"nodeExists", nodeKey(email.id)>>)]
       IN /\ Fault(~ok)
          /\ IF existingNode # Null
               THEN processEmailReturns(existsResult(existingNode), "exists", h)
               ELSE /\ pc' = "uploadHtml"
                    /\ hist' = h
                    /\ UNCHANGED res
  /\ UNCHANGED <<env, target, startTime, sinceDate, offset, allEmails, emails, bi, bk, cnt,
                 result, returned, thrown, runs, prev>>
  /\ UNCHANGED rt

\* AlfrescoClient.uploadFile creates one more node of that name in the folder
\* (it sets neither overwrite nor autoRename; a server that refuses the name
\* is the failing call of the actions below)
uploadFile(key) == nodes (+) SetToBag({key})

\* lines 147-156
processEmailUploadHtml ==
  /\ pc = "uploadHtml"
  /\ \/ /\ nodes' = uploadFile(nodeKey(email.id))
        /\ pc' = "uploadMeta"
        /\ hist' = [hist EXCEPT !.uploads = @ + 1,
                                !.calls = Append(@, <<"uploadFile", nodeKey(email.id)>>)]
        /\ UNCHANGED <<res, nfaults>>
     \/ /\ MayFail
        /\ Fault(TRUE)
        /\ processEmailReturns(catchResult, "target",
                               [hist EXCEPT !.faulty = TRUE,
                                  !.calls = Append(@, <<"uploadFile", nodeKey(email.id)>>)])
        /\ UNCHANGED nodes
  /\ UNCHANGED <<env, folders, stateNodes, startTime, sinceDate, offset, allEmails, emails,
                 bi, bk, cnt, result, returned, thrown, runs, prev>>
  /\ UNCHANGED rt

\* lines 164-192
processEmailUploadMeta ==
  /\ pc = "uploadMeta"
  /\ \/ /\ nodes' = uploadFile(metaKey(email.id))
        /\ processEmailReturns([success |-> TRUE, node |-> Some(nodeKey(email.id))],
                               "uploaded",
                               [hist EXCEPT !.uploads = @ + 1,
                                  !.calls = Append(@, <<"uploadFile", metaKey(email.id)>>)])
        /\ UNCHANGED nfaults
     \/ /\ MayFail
        /\ Fault(TRUE)
        /\ processEmailReturns(catchResult, "target",
                               [hist EXCEPT !.faulty = TRUE,
                                  !.calls = Append(@, <<"uploadFile", metaKey(email.id)>>)])
        /\ UNCHANGED nodes
  /\ UNCHANGED <<env, folders, stateNodes, startTime, sinceDate, offset, allEmails, emails,
                 bi, bk, cnt, result, returned, thrown, runs, prev>>
  /\ UNCHANGED rt

\* ---- sync.ts: processBatch ----------------------------------------------

\* a success branch that counted nothing for a result with a node
countResult_skip(c, r, id) ==
  IF r.success
    THEN IF r.node # Null
           THEN c
           ELSE [c EXCEPT !.skipped = @ + 1]
    ELSE [c EXCEPT !.failed = @ + 1, !.failedIds = Append(@, id)]

\* lines 228-237: the counters after the result r of the email with this id
countResult(c, r, id) ==
  IF r.success
    THEN IF r.node # Null
           THEN [c EXCEPT !.processed = @ + 1]
           ELSE [c EXCEPT !.skipped = @ + 1]
    ELSE [c EXCEPT !.failed = @ + 1, !.failedIds = Append(@, id)]

\* line 240: the delay between two emails, in ms
itemDelay == 100

\* a delay that was slept only after an email that succeeded
delayAfter_onlyOk(r) == IF r.success THEN itemDelay ELSE 0

\* lines 239-240: the delay slept after an email with result r
delayAfter(r) == itemDelay

processBatchCount ==
  /\ pc = "count"
  /\ cnt' = countResult(cnt, res, email.id)
  /\ pc' = "delay"
  /\ hist' = [hist EXCEPT !.fetch = "none", !.html = FALSE, !.calls = <<>>]
  /\ UNCHANGED <<env, nfaults, target, startTime, sinceDate, offset, allEmails, emails, bi,
                 bk, res, result, returned, thrown, runs, prev>>
  /\ UNCHANGED rt

\* a loop that stopped after its first batch
moreBatches_none(i, n) == FALSE
\* line 216: the condition of the for loop, after i += batchSize
moreBatches(i, n) == i < n

\* lines 239-246 and 320-323: after the delay the loops go on, or processBatch returns
processBatchDelay ==
  /\ pc = "delay"
  /\ IF bk < Len(batch)
       THEN /\ bk' = bk + 1
            /\ pc' = "fetch"
            /\ UNCHANGED <<bi, result>>
       ELSE IF moreBatches(bi + batchSize, Len(emails))
              THEN /\ bi' = bi + batchSize
                   /\ bk' = 1
                   /\ pc' = "fetch"
                   /\ UNCHANGED result
              ELSE /\ result' = [result EXCEPT !.processedEmails = cnt.processed,
                                               !.failedEmails = cnt.failed,
                                               !.skippedEmails = cnt.skipped,
                                               !.failedEmailIds = cnt.failedIds]
                   /\ pc' = "save"
                   /\ UNCHANGED <<bi, bk>>
  /\ hist' = IF pc' = "save"
               THEN [hist EXCEPT !.batchDone = TRUE, !.batchResult = cnt,
                                 !.delays = Append(@, delayAfter(res))]
               ELSE [hist EXCEPT !.delays = Append(@, delayAfter(res))]
  /\ UNCHANGED <<env, nfaults, target, startTime, sinceDate, offset, allEmails, emails, cnt,
                 res, returned, thrown, runs, prev>>
  /\ UNCHANGED rt

\* ---- sync.ts: saveSyncState and the return ------------------------------

\* a marker taken from the clock at the time of the save
syncTimestamp_end(start, nowv) == toISOString(nowv)

\* line 326
syncTimestamp(start, nowv) == toISOString(start)

\* a catch block that raised the error again
saveCatch_rethrow(e) == Some(e)

\* saveSyncState, lines 85-88: the error is logged, nothing is raised
saveCatch(e) == Null

\* saveSyncState: the marker nodes after the upsert; nothing changes when a call raises
saveSyncState(timestamp, rootOk, existsOk, writeOk) ==
  IF ~rootOk THEN stateNodes
  ELSE IF existsOk /\ stateNodes # <<>>
         THEN (IF writeOk THEN [stateNodes EXCEPT ![1] = Some(timestamp)] ELSE stateNodes)
         ELSE (IF writeOk THEN Append(stateNodes, Some(timestamp)) ELSE stateNodes)

\* the calls of saveSyncState that fail: none, getRootNodeId, nodeExists, or the write
SaveOutcomes ==
  {<<TRUE, TRUE, TRUE>>}
  \cup (IF MayFail THEN {<<FALSE, TRUE, TRUE>>, <<TRUE, FALSE, TRUE>>, <<TRUE, TRUE, FALSE>>}
        ELSE {})

\* lines 325-340
syncSave ==
  /\ pc = "save"
  /\ \E o \in SaveOutcomes :
       LET ts == syncTimestamp(startTime, clock)
           written == o[1] /\ o[3]
           failed == o # <<TRUE, TRUE, TRUE>>
           raised == IF ~written THEN saveCatch("TargetError") ELSE Null
           h == [hist EXCEPT !.saved = IF written THEN Some(ts) ELSE @,
                             !.faulty = @ \/ failed,
                             !.marker = Append(@, "saveSyncState"),
                             !.saveRaised = ~written]
       IN /\ stateNodes' = saveSyncState(ts, o[1], o[2], o[3])
          /\ Fault(failed)
          /\ IF raised # Null
               THEN Finish(Null, syncCatch(Val(raised)), h)
               ELSE Finish(Some([result EXCEPT !.endTime = clock]), Null, h)
  /\ UNCHANGED <<env, folders, nodes, startTime, runs>>
  /\ UNCHANGED rt

Next ==
  \/ Tick
  \/ UpdateItem
  \/ syncStart
  \/ syncLoad
  \/ getEmailsPage
  \/ getEmailsBreak
  \/ getEmailsRaise
  \/ processEmailFetch
  \/ processEmailEnsure
  \/ processEmailExists
  \/ processEmailUploadHtml
  \/ processEmailUploadMeta
  \/ processBatchCount
  \/ processBatchDelay
  \/ syncSave

Spec == Init /\ [][Next]_vars

\* ---- properties ----------------------------------------------------------

InBatch == pc \in {"fetch", "ensure", "exists", "uploadHtml", "uploadMeta", "count", "delay"}
Counted == cnt.processed + cnt.failed + cnt.skipped
IsPayloadless(e) == e.step \in {"payload", "auth"}
IsFailed(e) == Outcome(e) = "Failed"

\* C1: whenever a run has written the marker, the timestamp it wrote is the
\* instant taken at the start of that run, and not the instant the run ended at
C1_MarkerIsStartTime ==
  hist.saved # Null =>
    /\ Val(hist.saved) = toISOString(startTime)
    /\ \E k \in DOMAIN stateNodes : stateNodes[k] = Some(toISOString(startTime))
    /\ (returned # Null /\ Val(returned).endTime # startTime
          => Val(hist.saved) # toISOString(Val(returned).endTime))

\* a run that saved its marker and ended later than it started
C1_Witness ==
  /\ hist.saved # Null
  /\ returned # Null
  /\ Val(returned).endTime > startTime

\* C2: an email that was a candidate of the previous run and failed in it is a
\* candidate of this run (stated for runs in which no source or target call
\* failed, so that the only failures are emails without HTML content)
C2_NoItemLost ==
  (prev.n >= 1 /\ hist.cand # Null /\ ~prev.faulty /\ ~hist.faulty)
    => prev.failed \subseteq Val(hist.cand)

\* C3: when the previous run saved its marker, every email whose updatedAt lay
\* between its start and its end is a candidate of this run (stated for a
\* previous run without a failing call and a run that has candidates)
C3_ChangedDuringRunIsCandidate ==
  (prev.n >= 1 /\ prev.saved # Null /\ ~prev.faulty
   /\ hist.cand # Null /\ Val(hist.cand) # {})
    => prev.changed \subseteq Val(hist.cand)

\* the same holds of the code whenever the listing of this run was drained
C3_HoldsForDrainedListing ==
  (prev.n >= 1 /\ prev.saved # Null /\ hist.cand # Null /\ hist.complete)
    => prev.changed \subseteq Val(hist.cand)

\* what C4 says of the second run
C4_NothingNew ==
  /\ hist.uploads = 0
  /\ nodes = hist.t0[2]
  /\ Val(returned).failedEmails = 0
  /\ \A k \in DOMAIN hist.log : Outcome(hist.log[k]) = "AlreadyExists"

C5_Original ==
  returned # Null =>
    LET r == Val(returned)
        payloadless == SelectSeq(hist.log, IsPayloadless)
    IN /\ r.failedEmails = Len(payloadless)
       /\ r.failedEmailIds = idsOf(payloadless)
       /\ r.processedEmails = r.totalEmails - Len(payloadless)

\* C5 as amended: failedEmails is the number of candidates that failed in
\* processEmail (no retrievable payload, or a failed ensureFolderPath or
\* uploadFile call), failedEmailIds their ids in processing order, each once,
\* and every other candidate is counted as processed
C5_FailedAreCounted ==
  returned # Null =>
    LET r == Val(returned)
        failedOnes == SelectSeq(hist.log, IsFailed)
    IN /\ r.failedEmails = Len(failedOnes)
       /\ r.failedEmailIds = idsOf(failedOnes)
       /\ Cardinality(Range(r.failedEmailIds)) = Len(r.failedEmailIds)
       /\ r.processedEmails = r.totalEmails - Len(failedOnes)
       /\ \A k \in DOMAIN hist.log : IsPayloadless(hist.log[k]) => IsFailed(hist.log[k])

\* the first of two candidates has no payload, the second is processed
C5_Witness ==
  /\ returned # Null
  /\ Len(hist.log) = 2
  /\ IsPayloadless(hist.log[1])
  /\ Val(returned).failedEmailIds = <<1>>
  /\ Val(returned).processedEmails = 1

FailedIdsSoFar ==
  IF returned # Null THEN Val(returned).failedEmailIds
  ELSE IF pc = "save" THEN result.failedEmailIds ELSE cnt.failedIds
NumCounted ==
  IF returned # Null \/ pc = "save" THEN Len(hist.log) ELSE Counted

C7_CountersAddUp ==
  /\ returned # Null =>
       LET r == Val(returned)
       IN /\ r.totalEmails = r.processedEmails + r.failedEmails + r.skippedEmails
          /\ Len(r.failedEmailIds) = r.failedEmails
  /\ (InBatch /\ pc # "delay") => Counted = bi + bk - 1
  /\ pc = "delay" => Counted = bi + bk
  /\ InBatch => Len(cnt.failedIds) = cnt.failed

\* a result with one processed and one failed email
C7_Witness ==
  /\ returned # Null
  /\ Val(returned).totalEmails = 2
  /\ Val(returned).processedEmails = 1
  /\ Val(returned).failedEmailIds = <<2>>

\* C8: the payload fetches start in the order of the listing, at most one
\* email is in progress, and the next fetch starts only when every email
\* started before has been counted
C8_OneAtATimeInOrder ==
  (InBatch \/ pc = "save") =>
    /\ hist.started = SubSeq(idsOf(emails), 1, Len(hist.started))
    /\ Len(hist.started) - Counted \in {0, 1}
    /\ Len(hist.started) - Len(hist.log) \in {0, 1}
    /\ pc = "fetch" => Counted = Len(hist.started)

\* the second of two candidates is about to be fetched
C8_Witness ==
  /\ pc = "fetch"
  /\ Len(emails) = 2
  /\ hist.started = <<1>>

\* C9: when the listing request raises, sync() raises that error, no candidate
\* is processed, nothing is uploaded and the marker is not written
C9_ListingFailureIsFatal ==
  hist.listError # Null =>
    /\ pc = "idle"
    /\ thrown = hist.listError
    /\ returned = Null
    /\ hist.started = <<>>
    /\ hist.log = <<>>
    /\ hist.uploads = 0
    /\ hist.saved = Null
    /\ target = hist.t0

\* the listing of a run raised while the archive held a marker
C9_Witness ==
  /\ hist.listError # Null
  /\ \E k \in DOMAIN stateNodes : stateNodes[k] # Null

\* C10: an authentication failure during a payload fetch is not recorded as a
\* per-item failure, and the run does not return a result
C10_AuthFailureIsFatal ==
  \A k \in DOMAIN hist.log :
    hist.log[k].step = "auth" =>
      /\ hist.log[k].id \notin Range(FailedIdsSoFar)
      /\ returned = Null

\* the marker the run found in the archive: its timestamp, or Null when there
\* was no marker node or the node had no timestamp property
MarkerAtStart ==
  IF hist.t0[3] # <<>> THEN hist.t0[3][1] ELSE Null

\* C11: when a target call inside saveSyncState raised, sync() returned all the
\* same, with the counters processBatch produced, and the marker nodes are the
\* ones the run found
C11_SaveFailureIsNotFatal ==
  hist.saveRaised =>
    /\ thrown = Null
    /\ returned # Null
    /\ Val(returned).processedEmails = hist.batchResult.processed
    /\ Val(returned).failedEmails = hist.batchResult.failed
    /\ Val(returned).skippedEmails = hist.batchResult.skipped
    /\ Val(returned).failedEmailIds = hist.batchResult.failedIds
    /\ Val(returned).totalEmails = Len(hist.log)
    /\ hist.saved = Null
    /\ stateNodes = hist.t0[3]

\* the save of a run that uploaded an email raised, and the archive held a
\* marker with a timestamp before the run
C11_Witness ==
  /\ hist.saveRaised
  /\ MarkerAtStart # Null
  /\ returned # Null
  /\ Val(returned).processedEmails >= 1

\* C12: loadSyncState raises nothing; when there is no marker, the marker has
\* no timestamp property, or a target call of the lookup failed, it returns no
\* timestamp and the run goes on to the listing with now - lookbackDays
C12_LoadNeverRaises ==
  /\ (pc = "list" \/ InBatch \/ pc = "save") => hist.loadDone
  /\ (thrown # Null => hist.listError # Null)
  /\ (hist.loadDone /\ (MarkerAtStart = Null \/ hist.loadErr)) =>
       /\ hist.loaded = Null
       /\ hist.since = getDaysAgo(hist.nowAtLoad, lookbackDays)
       /\ (pc = "list" => sinceDate = getDaysAgo(hist.nowAtLoad, lookbackDays))
       /\ (hist.cand # Null /\ hist.complete /\ ~hist.chg) => Val(hist.cand) = Ids

\* a lookup that failed although the archive held a marker with a timestamp
C12_Witness ==
  /\ pc = "list"
  /\ hist.loadErr
  /\ MarkerAtStart # Null

\* a marker node without timestamp property was found and the listing went on
C12_WitnessNoProperty ==
  /\ pc = "list"
  /\ ~hist.loadErr
  /\ hist.t0[3] = <<Null>>

\* C13: after any sequence of saves there is at most one marker node under
\* the archive root
C13_AtMostOneMarker ==
  Len(stateNodes) <= 1

\* C14: the lower bound of the listing is the stored timestamp when one was
\* loaded, and now - lookbackDays otherwise; a marker that was read without a
\* failing call is the one that is used, and every candidate is at or after
\* the bound
C14_LowerBound ==
  hist.loadDone =>
    LET bound == IF hist.loaded # Null THEN newDate(Val(hist.loaded))
                 ELSE getDaysAgo(hist.nowAtLoad, lookbackDays)
    IN /\ hist.since = bound
       /\ (pc = "list" => sinceDate = bound)
       /\ (~hist.loadErr => hist.loaded = MarkerAtStart)
       /\ \A k \in DOMAIN emails : newDate(emails[k].updatedAt) >= bound
       /\ \A k \in DOMAIN allEmails : newDate(allEmails[k].updatedAt) >= bound

\* a stored timestamp was loaded and the listing dropped an older email
C14_Witness ==
  /\ pc = "fetch"
  /\ hist.loaded # Null
  /\ Len(emails) < NumItems
  /\ hist.complete

\* an email as it was listed is at or after the lower bound of the run
AtOrAfterSince(e) == newDate(e.updatedAt) >= hist.since
BeforeSince(e) == newDate(e.updatedAt) < hist.since

\* C15: what getEmailsSince has collected, and what it returns, is the
\* sequence of the listed emails whose updatedAt >= since, in listing order;
\* an email updated exactly at since is kept, every older one is dropped
C15_FilterKeepsTies ==
  hist.loadDone =>
    LET kept == SelectSeq(hist.listed, AtOrAfterSince)
    IN /\ (pc = "list" => allEmails = kept)
       /\ ((InBatch \/ pc = "save") => emails = kept)
       /\ (hist.cand # Null => Val(hist.cand) = Range(idsOf(kept)))
       /\ \A k \in DOMAIN hist.listed :
            /\ (InBatch /\ newDate(hist.listed[k].updatedAt) = hist.since)
                 => hist.listed[k] \in Range(emails)
            /\ (InBatch /\ BeforeSince(hist.listed[k]))
                 => hist.listed[k].id \notin Range(idsOf(emails))

\* the listing held an email updated exactly at since and an older one
C15_Witness ==
  /\ pc = "fetch"
  /\ hist.complete
  /\ \E k \in DOMAIN hist.listed : newDate(hist.listed[k].updatedAt) = hist.since
  /\ \E k \in DOMAIN hist.listed : BeforeSince(hist.listed[k])

\* C16: getEmailsSince returns only after a page without continuation signal
\* was fetched, and every page of the listing was fetched by then
C16_ListingIsDrained ==
  hist.cand # Null =>
    /\ hist.complete
    /\ idsOf(hist.listed) = [k \in 1..NumItems |-> k]

\* ---- utils/retry.ts -------------------------------------------------------

\* largest maxRetries a caller passes
MaxAttempts == 3

\* a string is a sequence of characters
MsgNetwork == <<"N", "e", "t", "w", "o", "r", "k", " ", "E", "r", "r", "o", "r">>
MsgTimeout == <<"t", "i", "m", "e", "o", "u", "t", " ", "e", "x", "c", "e", "e", "d", "e", "d">>
MsgRefused == <<"c", "o", "n", "n", "e", "c", "t", " ", "E", "C", "O", "N", "N", "R", "E", "F", "U", "S", "E", "D">>
MsgReset == <<"r", "e", "a", "d", " ", "E", "C", "O", "N", "N", "R", "E", "S", "E", "T">>
MsgTimedOut == <<"c", "o", "n", "n", "e", "c", "t", " ", "E", "T", "I", "M", "E", "D", "O", "U", "T">>
MsgStatus == <<"R", "e", "q", "u", "e", "s", "t", " ", "f", "a", "i", "l", "e", "d">>
MsgOther == <<"S", "o", "m", "e", "t", "h", "i", "n", "g", " ", "w", "e", "n", "t", " ", "w", "r", "o", "n", "g">>

\* String.prototype.toLowerCase, on the letters that occur
lowerChar(c) ==
  CASE c = "C" -> "c"
    [] c = "D" -> "d"
    [] c = "E" -> "e"
    [] c = "F" -> "f"
    [] c = "I" -> "i"
    [] c = "M" -> "m"
    [] c = "N" -> "n"
    [] c = "O" -> "o"
    [] c = "R" -> "r"
    [] c = "S" -> "s"
    [] c = "T" -> "t"
    [] c = "U" -> "u"
    [] OTHER -> c
toLowerCase(str) == [k \in DOMAIN str |-> lowerChar(str[k])]

\* String.prototype.includes
includes(str, sub) ==
  \E k \in 1..(Len(str) - Len(sub) + 1) : SubSeq(str, k, k + Len(sub) - 1) = sub

\* the values that are thrown: Error instances with a message, with or without
\* a status property; plain objects with or without status; primitives
Messages == {MsgNetwork, MsgTimeout, MsgRefused, MsgReset, MsgTimedOut, MsgStatus, MsgOther}
Statuses == {100, 200, 204, 302, 400, 404, 408, 429, 499, 500, 503, 599, 600}
Errors ==
  [kind : {"Error"}, message : Messages, status : {Null} \cup {Some(c) : c \in Statuses}]
  \cup [kind : {"object"}, message : {<<>>}, status : {Null} \cup {Some(c) : c \in Statuses}]
  \cup [kind : {"primitive"}, message : {<<>>}, status : {Null}]

\* lines 336-341: the default options
DEFAULT_RETRY_OPTIONS ==
  [maxRetries |-> 3, initialDelayMs |-> 1000, maxDelayMs |-> 30000, backoffMultiplier |-> 2]

\* line 366: { ...DEFAULT_RETRY_OPTIONS, ...options }, a field of options is Null or Some(n)
mergeOptions(options) ==
  [f \in DOMAIN DEFAULT_RETRY_OPTIONS |->
     IF options[f] # Null THEN Val(options[f]) ELSE DEFAULT_RETRY_OPTIONS[f]]

\* the options the callers are studied with
OptionSets ==
  [maxRetries : {Null} \cup {Some(n) : n \in 1..MaxAttempts},
   initialDelayMs : {Null, Some(1), Some(100)},
   maxDelayMs : {Null, Some(50), Some(150)},
   backoffMultiplier : {Null, Some(1), Some(3)}]

\* Math.pow on naturals
RECURSIVE pow(_, _)
pow(b, e) == IF e = 0 THEN 1 ELSE b * pow(b, e - 1)

min(a, b) == IF a < b THEN a ELSE b

\* a delay that was not capped
calculateDelay_uncapped(attempt, options) ==
  options.initialDelayMs * pow(options.backoffMultiplier, attempt - 1)

\* lines 353-356
calculateDelay(attempt, options) ==
  min(options.initialDelayMs * pow(options.backoffMultiplier, attempt - 1),
      options.maxDelayMs)

\* a final error that was wrapped into another one
retryThrow_wrapped(error) == [error EXCEPT !.kind = "Error", !.message = MsgOther]

\* line 377: throw error
retryThrow(error) == error

\* a loop that called the operation again after it had succeeded
afterCall_again(ok, attempt, opts) ==
  IF attempt = opts.maxRetries THEN (IF ok THEN "returned" ELSE "thrown") ELSE "sleep"

\* lines 369-387: what follows a call of fn in the loop body
afterCall(ok, attempt, opts) ==
  IF ok THEN "returned"
  ELSE IF attempt = opts.maxRetries THEN "thrown" ELSE "sleep"

\* the errors and results fn is studied with
RetryErrors ==
  {[kind |-> "Error", message |-> MsgNetwork, status |-> Null],
   [kind |-> "Error", message |-> MsgStatus, status |-> Some(404)],
   [kind |-> "object", message |-> <<>>, status |-> Some(500)]}
RetryValues == {1, 2}
FnOutcomes ==
  [ok : {TRUE}, value : RetryValues, error : {Null}]
  \cup [ok : {FALSE}, value : {0}, error : {Some(e) : e \in RetryErrors}]

\* retry() has been called with these options: lines 366-369, attempt = 1; when
\* the loop test fails at once, line 390 throws lastError, which is undefined
RtStart(options) ==
  [phase |-> IF 1 <= mergeOptions(options).maxRetries THEN "call" ELSE "thrown",
   opts |-> mergeOptions(options), attempt |-> 1, outs |-> <<>>,
   sleeps |-> <<>>, delay |-> 0, value |-> Null, error |-> Null, lastError |-> Null]

\* isRetryableError() is about to be called with this value
RtClassify(error) == [phase |-> "classify", error |-> error, verdict |-> FALSE]

syncVars == <<clock, src, nfaults, nupdates, folders, nodes, stateNodes, pc, startTime,
              sinceDate, offset, allEmails, emails, bi, bk, cnt, res, result, returned,
              thrown, runs, hist, prev>>

\* the state in which the utilities are studied: no run of sync() is under way
UtilInit ==
  /\ SyncInit
  /\ \A i \in Ids : src[i].html
  /\ stateNodes = <<>>

RetryInit ==
  /\ UtilInit
  /\ rt \in {RtStart(options) : options \in OptionSets}

\* lines 369-387: fn is awaited; it returns a value or raises
retryCall ==
  /\ rt.phase = "call"
  /\ \E o \in FnOutcomes :
       LET next == afterCall(o.ok, rt.attempt, rt.opts)
       IN rt' = [rt EXCEPT !.outs = Append(@, o),
                           !.phase = next,
                           !.lastError = IF o.ok THEN @ ELSE o.error,
                           !.value = IF next = "returned" THEN Some(o.value) ELSE @,
                           !.error = IF next = "thrown" THEN Some(retryThrow(Val(o.error)))
                                     ELSE @,
                           !.delay = IF next = "sleep"
                                       THEN calculateDelay(rt.attempt, rt.opts) ELSE @]
  /\ UNCHANGED syncVars

\* lines 386 and 368: the sleep ends and the loop goes to the next attempt;
\* line 390 raises lastError when the loop is left
retrySleep ==
  /\ rt.phase = "sleep"
  /\ rt' = [rt EXCEPT !.sleeps = Append(@, rt.delay),
                      !.attempt = @ + 1,
                      !.phase = IF rt.attempt + 1 <= rt.opts.maxRetries THEN "call"
                                ELSE "thrown",
                      !.error = IF rt.attempt + 1 <= rt.opts.maxRetries THEN @
                                ELSE rt.lastError]
  /\ UNCHANGED syncVars

RetryNext ==
  \/ retryCall
  \/ retrySleep

RetrySpec == RetryInit /\ [][RetryNext]_vars

\* an Error whose message has one of these words, whatever its letter case
NetworkWords ==
  {<<"n", "e", "t", "w", "o", "r", "k">>,
   <<"t", "i", "m", "e", "o", "u", "t">>,
   <<"e", "c", "o", "n", "n", "r", "e", "f", "u", "s", "e", "d">>,
   <<"e", "c", "o", "n", "n", "r", "e", "s", "e", "t">>}

\* lines 396-415
isRetryableError(error) ==
  IF error.kind = "Error"
     /\ \E w \in NetworkWords : includes(toLowerCase(error.message), w)
    THEN TRUE
  ELSE IF error.kind # "primitive" /\ error.status # Null
    THEN \/ (Val(error.status) >= 500 /\ Val(error.status) < 600)
         \/ Val(error.status) = 429
  ELSE FALSE

ClassifyInit ==
  /\ UtilInit
  /\ rt \in {RtClassify(e) : e \in Errors}

isRetryableErrorCall ==
  /\ rt.phase = "classify"
  /\ rt' = [rt EXCEPT !.phase = "classified", !.verdict = isRetryableError(rt.error)]
  /\ UNCHANGED syncVars

ClassifyNext == isRetryableErrorCall

ClassifySpec == ClassifyInit /\ [][ClassifyNext]_vars

\* ---- properties of the utilities ------------------------------------------

Failures(outs) == SelectSeq(outs, LAMBDA o : ~o.ok)

\* C17: when every call of the operation failed, retry() has called it exactly
\* maxRetries times when it raises, and it raises the error of the last call
C17_RaisesLastErrorAfterN ==
  (rt.phase = "thrown") =>
    /\ Len(rt.outs) = rt.opts.maxRetries
    /\ \A k \in DOMAIN rt.outs : ~rt.outs[k].ok
    /\ rt.error = rt.outs[Len(rt.outs)].error
    /\ rt.value = Null

\* three failing calls with different errors, the last one a plain object
C17_Witness ==
  /\ rt.phase = "thrown"
  /\ Len(rt.outs) = 3
  /\ rt.outs[1].error # rt.outs[3].error
  /\ Val(rt.outs[3].error).kind = "object"

\* C18: the operation is never called again after a call that succeeded; when
\* the k-th call is the first to succeed, retry() returns its result after
\* these k calls, k <= maxRetries, and a success of the first call comes
\* without any sleep
C18_ReturnsFirstSuccess ==
  /\ rt.phase \in {"call", "sleep", "thrown"} => \A k \in DOMAIN rt.outs : ~rt.outs[k].ok
  /\ rt.phase = "returned" =>
       LET k == Len(rt.outs)
       IN /\ k >= 1 /\ k <= rt.opts.maxRetries
          /\ rt.outs[k].ok
          /\ \A j \in 1..(k - 1) : ~rt.outs[j].ok
          /\ rt.value = Some(rt.outs[k].value)
          /\ rt.error = Null
          /\ (k = 1 => rt.sleeps = <<>>)

\* the third call was the first to succeed
C18_Witness ==
  /\ rt.phase = "returned"
  /\ Len(rt.outs) = 3
  /\ rt.value = Some(2)

\* C19: the a-th sleep lasts min(initialDelayMs * backoffMultiplier^(a-1),
\* maxDelayMs); there is one sleep per failed attempt that was not the last,
\* none after the final failure or a success, and no sleep exceeds maxDelayMs
C19_Backoff ==
  /\ \A a \in DOMAIN rt.sleeps :
       /\ rt.sleeps[a] = min(rt.opts.initialDelayMs * pow(rt.opts.backoffMultiplier, a - 1),
                             rt.opts.maxDelayMs)
       /\ rt.sleeps[a] <= rt.opts.maxDelayMs
  /\ rt.phase = "call" => Len(rt.sleeps) = Len(rt.outs) /\ rt.attempt = Len(rt.outs) + 1
  /\ rt.phase = "sleep" => Len(rt.sleeps) = Len(rt.outs) - 1
  /\ rt.phase = "returned" => Len(rt.sleeps) = Len(rt.outs) - 1
  /\ rt.phase = "thrown" =>
       /\ Len(rt.sleeps) = rt.opts.maxRetries - 1
       /\ Len(rt.sleeps) = Len(Failures(rt.outs)) - 1

\* two sleeps, the first below the cap and the second capped
C19_Witness ==
  /\ rt.phase \in {"returned", "thrown"}
  /\ Len(rt.sleeps) = 2
  /\ rt.sleeps[1] < rt.opts.maxDelayMs
  /\ rt.sleeps[2] = rt.opts.maxDelayMs
  /\ rt.opts.initialDelayMs * pow(rt.opts.backoffMultiplier, 1) > rt.opts.maxDelayMs

\* a transport error: an Error without status code raised by the connection
TransportMessages == {MsgNetwork, MsgTimeout, MsgRefused, MsgReset, MsgTimedOut}
IsTransportError(e) ==
  e.kind = "Error" /\ e.status = Null /\ e.message \in TransportMessages

\* C20: isRetryableError is true for every 5xx status and 429, false for every
\* 2xx/3xx status and every other 4xx status, and true for a transport error
\* without status code
C20_ClassifiedByStatus ==
  rt.phase = "classified" =>
    LET e == rt.error
        c == Val(e.status)
    IN /\ (e.status # Null /\ ((c >= 500 /\ c < 600) \/ c = 429)) => rt.verdict
       /\ (e.status # Null /\ c >= 200 /\ c < 500 /\ c # 429) => ~rt.verdict
       /\ IsTransportError(e) => rt.verdict

\* ---- properties of processEmail, processBatch and main ---------------------

\* processEmail has just returned for the current email: its log entry, and
\* whether the source gave it no usable payload
Last == hist.log[Len(hist.log)]
NoPayload == hist.fetch # "ok" \/ ~hist.html
UploadCalls(calls) == SelectSeq(calls, LAMBDA c : c[1] = "uploadFile")
HtmlKey(id) == <<folderPath(id), emailFileName(id)>>
MetadataKey(id) == <<folderPath(id), metadataFileName(id)>>

\* C21: an email whose payload fetch failed or whose payload has no HTML body
\* comes out as Failed, and no target call was made for it
C21_NoPayloadNoTargetCall ==
  /\ (pc = "count" /\ NoPayload) =>
       /\ ~res.success
       /\ Last.id = email.id
       /\ Outcome(Last) = "Failed"
       /\ hist.calls = <<>>
  /\ (pc \in {"ensure", "exists", "uploadHtml", "uploadMeta"} \/ hist.calls # <<>>)
       => (hist.fetch = "ok" /\ hist.html)

\* the second email of a run has no body, after a first whose fetch failed
C21_Witness ==
  /\ pc = "count"
  /\ Len(hist.log) = 2
  /\ hist.log[1].step = "payload"
  /\ hist.fetch = "ok"
  /\ ~hist.html
  /\ ~res.success
  /\ nodes = EmptyBag

\* C22: when the HTML node of an email was found, processEmail made no upload
\* and returned that node; the email is counted as processed, and no email is
\* ever counted as skipped
C22_ExistingIsProcessed ==
  /\ (pc = "count" /\ Last.step = "exists") =>
       /\ res.success
       /\ res.node = Some(HtmlKey(email.id))
       /\ UploadCalls(hist.calls) = <<>>
       /\ hist.calls = <<<<"ensureFolderPath", folderPath(email.id)>>,
                         <<"nodeExists", HtmlKey(email.id)>>>>
  /\ \A k \in DOMAIN hist.log :
       hist.log[k].step = "exists" =>
         /\ hist.log[k].r.success
         /\ hist.log[k].r.node = Some(HtmlKey(hist.log[k].id))
  /\ InBatch => cnt.skipped = 0
  /\ returned # Null =>
       /\ Val(returned).skippedEmails = 0
       /\ Val(returned).processedEmails
            = Len(SelectSeq(hist.log, LAMBDA e : Outcome(e) # "Failed"))

\* a run whose two emails were both found in the archive
C22_Witness ==
  /\ returned # Null
  /\ Len(hist.log) = 2
  /\ \A k \in DOMAIN hist.log : hist.log[k].step = "exists"
  /\ Val(returned).processedEmails = 2

\* C23: an email with a body whose HTML node was not found and whose target
\* calls all succeeded comes out as Uploaded after exactly two uploads into
\* its folder, the HTML file first and the metadata file second, and both
\* nodes exist when Uploaded is reported
C23_TwoUploadsInOrder ==
  /\ pc = "count" =>
       /\ (~NoPayload /\ Last.step \notin {"target", "exists"}) => Last.step = "uploaded"
       /\ Last.step = "uploaded" =>
            /\ Outcome(Last) = "Uploaded"
            /\ hist.calls = <<<<"ensureFolderPath", folderPath(email.id)>>,
                              <<"nodeExists", HtmlKey(email.id)>>,
                              <<"uploadFile", HtmlKey(email.id)>>,
                              <<"uploadFile", MetadataKey(email.id)>>>>
  /\ \A k \in DOMAIN hist.log :
       /\ Outcome(hist.log[k]) = "Uploaded" <=> hist.log[k].step = "uploaded"
       /\ hist.log[k].step = "uploaded" =>
            /\ CopiesIn(HtmlKey(hist.log[k].id), nodes) >= 1
            /\ CopiesIn(MetadataKey(hist.log[k].id), nodes) >= 1
  /\ pc = "uploadMeta" =>
       /\ Len(hist.log) = Len(hist.started) - 1
       /\ UploadCalls(hist.calls) = <<<<"uploadFile", HtmlKey(email.id)>>>>

\* the second email of a run has just been uploaded, after the first
C23_Witness ==
  /\ pc = "count"
  /\ Len(hist.log) = 2
  /\ \A k \in DOMAIN hist.log : hist.log[k].step = "uploaded"
  /\ Len(UploadCalls(hist.calls)) = 2
  /\ \A i \in Ids : CopiesIn(MetadataKey(i), nodes) = 1

\* C26: when the listing gave no candidate, sync() returns a result with all
\* counters at zero and no failed id, no email is processed, and the target,
\* marker included, is as the run found it
C26_EmptyRunWritesNothing ==
  hist.cand = Some({}) =>
    /\ pc = "idle"
    /\ thrown = Null
    /\ returned # Null
    /\ Val(returned).totalEmails = 0
    /\ Val(returned).processedEmails = 0
    /\ Val(returned).failedEmails = 0
    /\ Val(returned).skippedEmails = 0
    /\ Val(returned).failedEmailIds = <<>>
    /\ hist.started = <<>>
    /\ hist.log = <<>>
    /\ hist.saved = Null
    /\ ~hist.saveRaised
    /\ target = hist.t0

\* a run that found a marker with a timestamp and nothing newer than it
C26_Witness ==
  /\ hist.cand = Some({})
  /\ hist.complete
  /\ ~hist.faulty
  /\ MarkerAtStart # Null
  /\ nodes # EmptyBag

\* C27: processBatch sleeps the inter-item delay once after every email,
\* whatever its outcome: as many delays as emails handled, each of itemDelay
\* ms, and the next email starts only when the delay of the one before is over
C27_OneDelayPerItem ==
  /\ \A k \in DOMAIN hist.delays : hist.delays[k] = itemDelay
  /\ pc = "fetch" => Len(hist.delays) = Len(hist.started)
  /\ pc \in {"ensure", "exists", "uploadHtml", "uploadMeta", "count", "delay"}
       => Len(hist.delays) = Len(hist.started) - 1
  /\ pc = "save" => Len(hist.delays) = Len(emails)
  /\ returned # Null =>
       /\ Len(hist.delays) = Val(returned).totalEmails
       /\ Len(hist.delays) = Len(hist.log)

\* a run of two emails, one failed and one not, with two delays
C27_Witness ==
  /\ returned # Null
  /\ Len(hist.log) = 2
  /\ Outcome(hist.log[1]) = "Failed"
  /\ Outcome(hist.log[2]) # "Failed"
  /\ hist.delays = <<itemDelay, itemDelay>>

\* C28: the exit code is 0 exactly when sync() returned a result without
\* failed email; it is not 0 when the result has a failed email and when
\* sync() raised
C28_ExitCode ==
  (pc = "idle" /\ runs >= 1) =>
    /\ hist.exit # Null
    /\ (Val(hist.exit) = 0) <=> (returned # Null /\ Val(returned).failedEmails = 0)
    /\ (returned # Null /\ Val(returned).failedEmailIds # <<>>) => Val(hist.exit) # 0
    /\ thrown # Null => Val(hist.exit) # 0

\* a run that returned a result with a failed email
C28_Witness ==
  /\ pc = "idle"
  /\ returned # Null
  /\ Val(returned).failedEmails = 1
  /\ Val(returned).processedEmails = 1
  /\ hist.exit = Some(1)

\* ---- processEmail: folder path and file names -----------------------------

MaxLabelLen == 2
MaxNameLen == 2
\* the characters of labels and names: every reserved character and one other
Alphabet == Reserved \cup {"a"}
Strings(n) == UNION {[1..k -> Alphabet] : k \in 0..n}
CreatedDates == {emailCreated(i) : i \in Ids}

\* processEmail is about to name the folder and the files of this email
RtPath(id, created, folder, name) ==
  [phase |-> "path", id |-> id, created |-> created, folder |-> folder, name |-> name,
   path |-> <<>>, parts |-> <<>>, fileName |-> <<>>, metadataFileName |-> <<>>]

PathInit ==
  /\ UtilInit
  /\ rt \in {RtPath(id, created, folder, name) :
               id \in Ids, created \in CreatedDates,
               folder \in {Null} \cup {Some(l) : l \in Strings(MaxLabelLen)},
               name \in Strings(MaxNameLen)}

\* lines 110-123 and 165 of processEmail, and the split of ensureFolderPath
processEmailPath ==
  /\ rt.phase = "path"
  /\ rt' = [rt EXCEPT !.phase = "pathDone",
                      !.path = folderPathString(rt.created, rt.folder),
                      !.parts = pathParts(folderPathString(rt.created, rt.folder)),
                      !.fileName = emailFileNameOf(rt.id, rt.name),
                      !.metadataFileName = metadataFileNameOf(rt.id, rt.name)]
  /\ UNCHANGED syncVars

PathNext == processEmailPath

PathSpec == PathInit /\ [][PathNext]_vars

\* a string with every reserved character replaced by "-" and the rest as it was
Replaced(s) == [k \in DOMAIN s |-> IF s[k] \in Reserved THEN "-" ELSE s[k]]
HasReserved(s) == \E k \in DOMAIN s : s[k] \in Reserved
GroupLabel(folder) ==
  IF folder # Null /\ Val(folder) # <<>> THEN Val(folder) ELSE <<"Uncategorized">>

\* C24: for every group label and display name, the group segment and both
\* file names hold no reserved character, each reserved character having
\* become "-" and every other character being unchanged, and the folder path
\* handed to ensureFolderPath has exactly three segments
C24_NamesAreSanitized ==
  rt.phase = "pathDone" =>
    /\ Len(rt.parts) = 3
    /\ rt.parts[1] = <<toPathFormat(rt.created).year>>
    /\ rt.parts[2] = <<toPathFormat(rt.created).month>>
    /\ rt.parts[3] = Replaced(GroupLabel(rt.folder))
    /\ ~HasReserved(rt.parts[3])
    /\ rt.fileName = <<ToString(rt.id), "-">> \o Replaced(rt.name) \o <<".html">>
    /\ rt.metadataFileName
         = <<ToString(rt.id), "-">> \o Replaced(rt.name) \o <<"-metadata.json">>
    /\ ~HasReserved(rt.fileName)
    /\ ~HasReserved(rt.metadataFileName)

\* a label of two path separators and a name of two reserved characters
C24_Witness ==
  /\ rt.phase = "pathDone"
  /\ rt.folder = Some(<<"/", "/">>)
  /\ rt.name = <<"\\", "*">>
  /\ rt.parts = <<<<"2024">>, <<"12">>, <<"-", "-">>>>
  /\ rt.fileName = <<"2", "-", "-", "-", ".html">>

MaxCalls == 2
Callers == {"A", "B"}
\* the id of the node at config.basePath
BaseId == 0

\* the folder nodes of this name under this parent
children(tree, parentId, name) == {n \in tree : n.parent = parentId /\ n.name = name}

\* the ids of the nodes a relative path leads to from these nodes
RECURSIVE nodesAt(_, _, _)
nodesAt(tree, from, names) ==
  IF names = <<>> THEN from
  ELSE nodesAt(tree,
               {n.id : n \in {c \in tree : c.parent \in from /\ c.name = Head(names)}},
               Tail(names))

\* lines 257-276: the nodes the server can answer with for base path + names;
\* none is a 404, which getNodeByPath turns into null
getNodeByPath(tree, base, names) ==
  IF base THEN nodesAt(tree, {BaseId}, names) ELSE {}

\* POST /nodes/{parentId}/children with the root in place of the parent
createFolder_underBase(parentId, name, id) == [id |-> id, parent |-> BaseId, name |-> name]
\* lines 281-302: the folder node the server creates
createFolder(parentId, name, id) == [id |-> id, parent |-> parentId, name |-> name]

\* the folder paths sync() asks for
PathStrings == {folderPathString(emailCreated(i), emailFolder(i)) : i \in Ids}

\* the first k folders of a path, each under the one before
chain(parts, k) == {createFolder(j - 1, parts[j], j) : j \in 1..k}

\* a caller about to call ensureFolderPath(path), with this many calls to make
RtCaller(path, left) ==
  [pc |-> "base", path |-> path, parts |-> <<>>, i |-> 0, cur |-> BaseId, left |-> left,
   t0 |-> {}, created |-> <<>>, calls |-> <<>>]

RtEnsure(base, tree, procs) ==
  [phase |-> "ensure", base |-> base, tree |-> tree, tree0 |-> tree,
   nextId |-> Cardinality(tree) + 1, nfaults |-> 0, procs |-> procs]

\* one caller making MaxCalls calls in a row, or two callers making one call
\* each at the same time; the base path exists or not, and a prefix of one of
\* the paths exists already
EnsureInit ==
  /\ UtilInit
  /\ \E base \in BOOLEAN, q \in PathStrings, k \in 0..3, pa \in PathStrings, pb \in PathStrings :
       /\ ~base => k = 0
       /\ \/ rt = RtEnsure(base, chain(pathParts(q), k),
                           [p \in {"A"} |-> RtCaller(pa, MaxCalls)])
          \/ rt = RtEnsure(base, chain(pathParts(q), k),
                           [p \in Callers |-> RtCaller(IF p = "A" THEN pa ELSE pb, 1)])

EnsureMayFail == rt.nfaults < MaxFaults

\* the call of this caller is over: it returned a node (ret) or raised (Null)
callEnds(proc, ret, tree) ==
  [proc EXCEPT !.calls = Append(@, [t0 |-> proc.t0, created |-> proc.created,
                                    ret |-> ret, t1 |-> tree]),
               !.left = @ - 1,
               !.pc = IF proc.left > 1 THEN "base" ELSE "end",
               !.parts = <<>>, !.i = 0, !.cur = BaseId, !.t0 = {}, !.created = <<>>]

\* lines 321-334: currentNode = node, then the next part, or the return
nextPart(proc, nodeId, tree) ==
  IF proc.i >= Len(proc.parts) THEN callEnds(proc, Some(nodeId), tree)
  ELSE [proc EXCEPT !.pc = "lookup", !.cur = nodeId, !.i = @ + 1]

\* lines 311-319: the base path is looked up and the path is split
ensureFolderPathBase(p) ==
  /\ rt.phase = "ensure"
  /\ p \in DOMAIN rt.procs
  /\ rt.procs[p].pc = "base"
  /\ LET proc == [rt.procs[p] EXCEPT !.t0 = rt.tree, !.parts = pathParts(rt.procs[p].path)]
     IN \/ /\ EnsureMayFail
           /\ rt' = [rt EXCEPT !.nfaults = @ + 1,
                               !.procs[p] = callEnds(proc, Null, rt.tree)]
        \/ /\ getNodeByPath(rt.tree, rt.base, <<>>) = {}
           /\ rt' = [rt EXCEPT !.procs[p] = callEnds(proc, Null, rt.tree)]
        \/ \E n \in getNodeByPath(rt.tree, rt.base, <<>>) :
             rt' = [rt EXCEPT !.procs[p] = nextPart(proc, n, rt.tree)]
  /\ UNCHANGED syncVars

\* lines 321-323: the node at currentPath is looked up
ensureFolderPathLookup(p) ==
  /\ rt.phase = "ensure"
  /\ p \in DOMAIN rt.procs
  /\ rt.procs[p].pc = "lookup"
  /\ LET proc == rt.procs[p]
         found == getNodeByPath(rt.tree, rt.base, SubSeq(proc.parts, 1, proc.i))
     IN \/ /\ EnsureMayFail
           /\ rt' = [rt EXCEPT !.nfaults = @ + 1,
                               !.procs[p] = callEnds(proc, Null, rt.tree)]
        \/ /\ found = {}
           /\ rt' = [rt EXCEPT !.procs[p].pc = "create"]
        \/ \E n \in found :
             rt' = [rt EXCEPT !.procs[p] = nextPart(proc, n, rt.tree)]
  /\ UNCHANGED syncVars

\* lines 325-328: the missing folder is created under currentNode. A folder of
\* that name may be there by now: the server then refuses the request, which
\* createFolder passes on, or it creates a second folder of the same name.
ensureFolderPathCreate(p) ==
  /\ rt.phase = "ensure"
  /\ p \in DOMAIN rt.procs
  /\ rt.procs[p].pc = "create"
  /\ LET proc == rt.procs[p]
         node == createFolder(proc.cur, proc.parts[proc.i], rt.nextId)
         taken == children(rt.tree, proc.cur, proc.parts[proc.i]) # {}
     IN \/ /\ EnsureMayFail \/ taken
           /\ rt' = [rt EXCEPT !.nfaults = IF taken THEN @ ELSE @ + 1,
                               !.procs[p] = callEnds(proc, Null, rt.tree)]
        \/ rt' = [rt EXCEPT !.tree = @ \cup {node},
                            !.nextId = @ + 1,
                            !.procs[p] = nextPart([proc EXCEPT !.created = Append(@, node)],
                                                  node.id, rt.tree \cup {node})]
  /\ UNCHANGED syncVars

EnsureNext ==
  \/ \E p \in Callers : ensureFolderPathBase(p)
  \/ \E p \in Callers : ensureFolderPathLookup(p)
  \/ \E p \in Callers : ensureFolderPathCreate(p)

EnsureSpec == EnsureInit /\ [][EnsureNext]_vars

\* ---- properties of ensureFolderPath ---------------------------------------

Solo == rt.phase = "ensure" /\ DOMAIN rt.procs = {"A"}
Race == rt.phase = "ensure" /\ DOMAIN rt.procs = Callers
\* how many leading segments of these parts exist in this tree
Existing(tree, parts) ==
  Cardinality({j \in 1..Len(parts) : nodesAt(tree, {BaseId}, SubSeq(parts, 1, j)) # {}})
NodeAt(tree, names) == CHOOSE n \in nodesAt(tree, {BaseId}, names) : TRUE

\* C30: a call of ensureFolderPath that returns has created exactly the
\* segments that were missing, each under the node of the segment before it,
\* has kept the ones that were there, and returns the node of the last
\* segment; a call after it creates nothing and returns the same node; without
\* the base path the call raises and creates nothing
C30_CreatesExactlyMissing ==
  Solo =>
    LET calls == rt.procs["A"].calls
        parts == pathParts(rt.procs["A"].path)
    IN \A k \in DOMAIN calls :
         LET c == calls[k]
             m == Existing(c.t0, parts)
         IN /\ ~rt.base => (c.ret = Null /\ c.created = <<>> /\ c.t1 = c.t0 /\ rt.tree = {})
            /\ c.ret # Null =>
                 /\ Len(c.created) = Len(parts) - m
                 /\ \A j \in DOMAIN c.created :
                      /\ c.created[j].name = parts[m + j]
                      /\ c.created[j].parent
                           = IF j = 1 THEN NodeAt(c.t0, SubSeq(parts, 1, m))
                             ELSE c.created[j - 1].id
                      /\ c.created[j] \notin c.t0
                 /\ c.t1 = c.t0 \cup {c.created[j] : j \in DOMAIN c.created}
                 /\ nodesAt(c.t1, {BaseId}, parts) = {Val(c.ret)}
            /\ (k > 1 /\ calls[k - 1].ret # Null) =>
                 /\ c.created = <<>>
                 /\ c.t1 = calls[k - 1].t1
                 /\ c.ret # Null => c.ret = calls[k - 1].ret

\* the first call found one segment and created two, the second created none
C30_Witness ==
  /\ Solo
  /\ Len(rt.procs["A"].calls) = 2
  /\ Existing(rt.procs["A"].calls[1].t0, pathParts(rt.procs["A"].path)) = 1
  /\ Len(rt.procs["A"].calls[1].created) = 2
  /\ rt.procs["A"].calls[1].ret # Null
  /\ rt.procs["A"].calls[2].created = <<>>
  /\ rt.procs["A"].calls[2].ret = rt.procs["A"].calls[1].ret

\* C29: when two callers ensure the same path, which did not exist, at the
\* same time and no request fails in transport, neither call raises, both
\* return the same node, and every segment of the path exists once
C29_RaceIsHarmless ==
  (/\ Race
   /\ rt.base
   /\ rt.nfaults = 0
   /\ rt.procs["A"].path = rt.procs["B"].path
   /\ nodesAt(rt.tree0, {BaseId}, pathParts(rt.procs["A"].path)) = {}
   /\ \A p \in Callers : rt.procs[p].pc = "end")
    => /\ \A p \in Callers : rt.procs[p].calls[1].ret # Null
       /\ rt.procs["A"].calls[1].ret = rt.procs["B"].calls[1].ret
       /\ \A j \in 1..Len(pathParts(rt.procs["A"].path)) :
            Cardinality(nodesAt(rt.tree, {BaseId},
                                SubSeq(pathParts(rt.procs["A"].path), 1, j))) = 1

\* ---- properties of the sync state across runs ------------------------------

\* the instant a marker node stores, when it stores one
StoredAt(stateNode) == newDate(Val(stateNode))

\* C31: no step lowers the timestamp a marker node stores or takes it away,
\* and a save that wrote stored a timestamp at or after the one the run found
C31_MarkerNeverDecreases ==
  [][/\ \A k \in DOMAIN stateNodes :
          /\ k \in DOMAIN stateNodes'
          /\ stateNodes[k] # Null =>
               /\ stateNodes'[k] # Null
               /\ StoredAt(stateNodes'[k]) >= StoredAt(stateNodes[k])
     /\ (hist'.saved # Null /\ hist.saved = Null /\ stateNodes # <<>> /\ stateNodes[1] # Null)
          => StoredAt(hist'.saved) >= StoredAt(stateNodes[1])]_vars

\* the second run has replaced the timestamp of the first by a later one
C31_Witness ==
  /\ pc = "idle"
  /\ prev.saved # Null
  /\ hist.saved # Null
  /\ Len(stateNodes) = 1
  /\ stateNodes[1] = hist.saved
  /\ StoredAt(hist.saved) > StoredAt(prev.saved)

\* ---- properties of the archive across runs --------------------------------

\* C32: every email a run counted as processed, uploaded or found, has its
\* HTML node and its metadata node in its folder
C32_ProcessedHasBoth ==
  \A k \in DOMAIN hist.log :
    Outcome(hist.log[k]) # "Failed" =>
      /\ CopiesIn(HtmlKey(hist.log[k].id), nodes) >= 1
      /\ CopiesIn(MetadataKey(hist.log[k].id), nodes) >= 1

\* C33: processEmail is never about to upload the HTML file of an email whose
\* HTML node is in the folder, whatever the target calls did, and so no folder
\* ever holds two HTML nodes of one name
C33_NoUploadOverExisting ==
  /\ pc = "uploadHtml" => CopiesIn(HtmlKey(email.id), nodes) = 0
  /\ \A i \in Ids : CopiesIn(HtmlKey(i), nodes) <= 1

\* ---- properties of the sync state within a run -----------------------------

\* the marker nodes are the ones the run found, but for one that was written
\* or added
OneMarkerWritten ==
  \/ /\ Len(stateNodes) = Len(hist.t0[3])
     /\ \A k \in DOMAIN stateNodes : k # 1 => stateNodes[k] = hist.t0[3][k]
  \/ /\ Len(stateNodes) = Len(hist.t0[3]) + 1
     /\ SubSeq(stateNodes, 1, Len(hist.t0[3])) = hist.t0[3]

\* C34: a run calls loadSyncState once, before the listing starts, and
\* saveSyncState at most once, when processEmail has returned for every
\* candidate; while the listing and the emails are processed the marker is
\* neither read nor written
C34_MarkerOncePerRun ==
  /\ pc = "load" => (hist.marker = <<>> /\ hist.listed = <<>> /\ hist.cand = Null)
  /\ (pc = "list" \/ InBatch \/ pc = "save") =>
       /\ hist.marker = <<"loadSyncState">>
       /\ stateNodes = hist.t0[3]
  /\ (pc = "idle" /\ runs >= 1) =>
       /\ hist.marker \in {<<"loadSyncState">>, <<"loadSyncState", "saveSyncState">>}
       /\ hist.marker = <<"loadSyncState">> => stateNodes = hist.t0[3]
       /\ hist.marker = <<"loadSyncState", "saveSyncState">> =>
            /\ hist.batchDone
            /\ hist.cand # Null
            /\ {hist.log[k].id : k \in DOMAIN hist.log} = Val(hist.cand)
            /\ Len(hist.log) = Cardinality(Val(hist.cand))
            /\ OneMarkerWritten

\* a run of two emails in two batches has written the marker
C34_Witness ==
  /\ pc = "idle"
  /\ hist.marker = <<"loadSyncState", "saveSyncState">>
  /\ Len(hist.log) = 2
  /\ hist.saved # Null
  /\ stateNodes # hist.t0[3]

\* C35: when the previous run's saveSyncState wrote its timestamp without
\* raising, by an update or by a creation, a loadSyncState of this run whose
\* calls all succeeded returns that timestamp, and the run lists from it
C35_SaveLoadRoundTrip ==
  (prev.n >= 1 /\ prev.saved # Null /\ hist.loadDone /\ ~hist.loadErr) =>
    /\ hist.loaded = prev.saved
    /\ hist.since = newDate(Val(prev.saved))

\* C35 for a previous run in which no source or target call failed
C35_HoldsWithoutFailedLookup ==
  (prev.n >= 1 /\ prev.saved # Null /\ ~prev.faulty /\ hist.loadDone /\ ~hist.loadErr) =>
    /\ hist.loaded = prev.saved
    /\ hist.since = newDate(Val(prev.saved))

\* ---- processBatch for every batch size ------------------------------------

MaxBatchSize == 3
\* what parseInt gives for SYNC_BATCH_SIZE: getEnvVarNumber refuses only NaN
BatchSizes == (0 - 1)..MaxBatchSize
\* an index this low stands for every lower one: below -emails.length the
\* slice is empty and the loop test holds, whatever the index
MinIndex == 0 - (NumItems + 1)
\* candidate lists: every email at most once
CandidateLists ==
  {l \in UNION {[1..n -> Ids] : n \in 0..NumItems} :
     \A a \in DOMAIN l, b \in DOMAIN l : l[a] = l[b] => a = b}

\* processBatch(emails, size) is called; ok[id] says whether processEmail
\* succeeds for that email
RtBatch(list, size, ok) ==
  [phase |-> "batch", at |-> "head", emails |-> list, size |-> size, ok |-> ok,
   i |-> 0, batch |-> <<>>, k |-> 1, cnt |-> EmptyCnt, order |-> <<>>]

BatchInit ==
  /\ UtilInit
  /\ rt \in {RtBatch(list, size, ok) :
               list \in CandidateLists, size \in BatchSizes, ok \in [Ids -> BOOLEAN]}

\* what processEmail returns for this email
processEmailResult(id, ok) ==
  IF ok[id] THEN [success |-> TRUE, node |-> Some(nodeKey(id))] ELSE catchResult

\* lines 216-217: the test of the outer loop, then the slice, or the return
processBatchHead ==
  /\ rt.phase = "batch"
  /\ rt.at = "head"
  /\ IF moreBatches(rt.i, Len(rt.emails))
       THEN rt' = [rt EXCEPT !.at = "items", !.k = 1,
                             !.batch = slice(rt.emails, rt.i, rt.i + rt.size)]
       ELSE rt' = [rt EXCEPT !.phase = "batchDone"]
  /\ UNCHANGED syncVars

\* lines 225-241: the next email of the batch is processed and counted
processBatchItem ==
  /\ rt.phase = "batch"
  /\ rt.at = "items"
  /\ rt.k <= Len(rt.batch)
  /\ LET id == rt.batch[rt.k]
     IN rt' = [rt EXCEPT !.k = @ + 1,
                         !.order = Append(@, id),
                         !.cnt = countResult(@, processEmailResult(id, rt.ok), id)]
  /\ UNCHANGED syncVars

\* line 216: the batch is over, i += batchSize
processBatchAdvance ==
  /\ rt.phase = "batch"
  /\ rt.at = "items"
  /\ rt.k > Len(rt.batch)
  /\ rt' = [rt EXCEPT !.at = "head", !.batch = <<>>, !.k = 1,
                      !.i = IF @ + rt.size < MinIndex THEN MinIndex ELSE @ + rt.size]
  /\ UNCHANGED syncVars

BatchNext == processBatchHead \/ processBatchItem \/ processBatchAdvance

BatchSpec == BatchInit /\ [][BatchNext]_vars /\ WF_vars(BatchNext)

\* processBatch has returned, every candidate was processed once in list
\* order, and the counters are those of the list whatever the batch size
BatchResultIsOfList ==
  rt.phase = "batchDone" =>
    /\ rt.order = rt.emails
    /\ rt.cnt.processed = Cardinality({k \in DOMAIN rt.emails : rt.ok[rt.emails[k]]})
    /\ rt.cnt.failed = Cardinality({k \in DOMAIN rt.emails : ~rt.ok[rt.emails[k]]})
    /\ rt.cnt.skipped = 0
    /\ rt.cnt.failedIds = SelectSeq(rt.emails, LAMBDA id : ~rt.ok[id])

\* C36: for every candidate list and every batch size the configuration
\* accepts, processBatch returns, having processed every candidate once in
\* list order, with counters and failed ids that do not depend on the size
C36_ProcessBatchTerminates ==
  /\ []BatchResultIsOfList
  /\ <>(rt.phase = "batchDone")

\* C36 for the batch sizes from 1 up
C36_HoldsForPositiveSizes ==
  /\ []BatchResultIsOfList
  /\ (rt.size >= 1) => <>(rt.phase = "batchDone")

\* ---- retry() for every value of maxRetries --------------------------------

\* the options of OptionSets, and those with maxRetries below 1
AnyOptionSets ==
  [maxRetries : {Null} \cup {Some(n) : n \in (0 - 1)..MaxAttempts},
   initialDelayMs : {Null, Some(1)},
   maxDelayMs : {Null, Some(50)},
   backoffMultiplier : {Null, Some(3)}]

RetryAnyInit ==
  /\ UtilInit
  /\ rt \in {RtStart(options) : options \in AnyOptionSets}

RetryAnySpec == RetryAnyInit /\ [][RetryNext]_vars

\* C38: whatever the options, when retry() has returned or raised it has
\* called the operation at least once and at most maxRetries times, and what
\* it raised is an error one of these calls threw
C38_CallsAtLeastOnce ==
  rt.phase \in {"returned", "thrown"} =>
    /\ Len(rt.outs) >= 1
    /\ Len(rt.outs) <= rt.opts.maxRetries
    /\ rt.phase = "thrown" =>
         /\ rt.error # Null
         /\ \E k \in DOMAIN rt.outs : rt.outs[k].error = rt.error

\* C38 for maxRetries from 1 up
C38_HoldsFromOne ==
  (rt.phase \in {"returned", "thrown"} /\ rt.opts.maxRetries >= 1) =>
    /\ Len(rt.outs) >= 1
    /\ Len(rt.outs) <= rt.opts.maxRetries
    /\ rt.phase = "thrown" =>
         /\ rt.error # Null
         /\ \E k \in DOMAIN rt.outs : rt.outs[k].error = rt.error

\* ---- one API call of a client: request() and uploadFile() -----------------

Clients == {"MarketoClient.request", "AlfrescoClient.request", "AlfrescoClient.uploadFile"}

\* part_001:80-129, part_002:237 and 403: { maxRetries: 3 }
RequestOptions == [DEFAULT_RETRY_OPTIONS EXCEPT !.maxRetries = 3]

\* part_001:409-414, part_002:515-520: an AxiosError whose response has status 401
isAuthError(response) == response = "401"

\* what the server answers to a request
Responses == {"ok", "401", "error"}

\* part_002:195-202: getAuthHeaders() raises when there is no ticket; the
\* Marketo client builds its header from whatever accessToken holds
headersRaise(client, credential) == client # "MarketoClient.request" /\ ~credential

\* part_001:72-76, part_002:186-190: ensureAuthenticated() calls authenticate()
needsAuthenticate(client, credential, expired) ==
  IF client = "MarketoClient.request" THEN ~credential \/ expired ELSE ~credential

\* a client is about to make one API call
RtRequest(client, credential, expired) ==
  [phase |-> "ensure", client |-> client, credential |-> credential, expired |-> expired,
   attempt |-> 1, sends |-> 0, refreshes |-> 0, events |-> <<>>]

RequestInit ==
  /\ UtilInit
  /\ rt \in {RtRequest(c, cr, ex) : c \in Clients, cr \in BOOLEAN, ex \in BOOLEAN}

\* part_001:86, part_002:211 and 348: await this.ensureAuthenticated(); a failed
\* authenticate() ends the call before retry() is entered
requestEnsure ==
  /\ rt.phase = "ensure"
  /\ IF needsAuthenticate(rt.client, rt.credential, rt.expired)
       THEN \E ok \in BOOLEAN :
              rt' = [rt EXCEPT !.phase = IF ok THEN "send" ELSE "thrown",
                               !.credential = IF ok THEN TRUE ELSE @,
                               !.expired = IF ok THEN FALSE ELSE @,
                               !.events = Append(@, IF ok THEN "authenticated"
                                                    ELSE "authenticateFailed")]
       ELSE rt' = [rt EXCEPT !.phase = "send"]
  /\ UNCHANGED syncVars

\* part_001:90-110, part_002:215-232 and 373-394: fn sends the request; on a 401
\* it drops the credential and calls authenticate(); any other error is
\* rethrown to retry()
requestSend ==
  /\ rt.phase = "send"
  /\ IF headersRaise(rt.client, rt.credential)
       THEN rt' = [rt EXCEPT !.phase = afterCall(FALSE, rt.attempt, RequestOptions),
                             !.events = Append(@, "notAuthenticated")]
       ELSE \E response \in Responses :
              rt' = [rt EXCEPT
                       !.sends = @ + 1,
                       !.events = Append(@, response),
                       !.credential = IF isAuthError(response) THEN FALSE ELSE @,
                       !.refreshes = IF isAuthError(response) THEN @ + 1 ELSE @,
                       !.phase = IF response = "ok" THEN "returned"
                                 ELSE IF isAuthError(response) THEN "reauth"
                                 ELSE afterCall(FALSE, rt.attempt, RequestOptions)]
  /\ UNCHANGED syncVars

\* part_001:107-119, part_002:221-231 and 380-391: authenticate() ends; the
\* request is sent again, or the failure leaves fn
requestReauth ==
  /\ rt.phase = "reauth"
  /\ \E ok \in BOOLEAN :
       rt' = [rt EXCEPT !.credential = ok,
                        !.expired = IF ok THEN FALSE ELSE @,
                        !.events = Append(@, IF ok THEN "authenticated"
                                             ELSE "authenticateFailed"),
                        !.phase = IF ok THEN "resend"
                                  ELSE afterCall(FALSE, rt.attempt, RequestOptions)]
  /\ UNCHANGED syncVars

\* part_001:110-121, part_002:223-233 and 382-393: the answer to the request
\* sent again; its failure leaves fn whatever it is
requestResend ==
  /\ rt.phase = "resend"
  /\ \E response \in Responses :
       rt' = [rt EXCEPT !.sends = @ + 1,
                        !.events = Append(@, response),
                        !.phase = afterCall(response = "ok", rt.attempt, RequestOptions)]
  /\ UNCHANGED syncVars

\* logger.test.ts:386 and 369: the sleep of retry() ends and fn is called again
requestSleep ==
  /\ rt.phase = "sleep"
  /\ rt' = [rt EXCEPT !.attempt = @ + 1, !.phase = "send"]
  /\ UNCHANGED syncVars

RequestNext ==
  \/ requestEnsure
  \/ requestSend
  \/ requestReauth
  \/ requestResend
  \/ requestSleep

RequestSpec == RequestInit /\ [][RequestNext]_vars

\* C37: within one API call of a client the credential is refreshed after a
\* 401 at most once: when the request sent again fails too, the call does not
\* authenticate again
C37_RefreshesOnce == rt.refreshes <= 1

\* C37 for one attempt of retry(): the attempts of one call refresh the
\* credential once each at most, and send the request twice each at most
C37_HoldsPerAttempt ==
  /\ rt.refreshes <= rt.attempt
  /\ rt.sends <= 2 * rt.attempt
  /\ rt.phase = "reauth" => ~rt.credential

\* ---- MarketoClient.waitForExtractJob --------------------------------------

\* the longest wait a caller asks for, in seconds
MaxWaitSeconds == 12

\* part_001:319: the time between two polls, in milliseconds
pollIntervalMs == 5000

\* marketo/types.ts:102: the values of MarketoBulkExtractJob.status
JobStatuses == {"Created", "Queued", "Processing", "Cancelled", "Completed", "Failed"}

\* the budgets the wait is studied with
WaitBudgets == {0, 5, MaxWaitSeconds}

\* the time an await takes beyond the least it can take, in milliseconds
Lateness == {0, 3000}

\* part_001:321: the loop test
withinBudget(now, start, maxWaitSeconds) == now - start < maxWaitSeconds * 1000

\* part_001:324
jobCompleted(status) == status = "Completed"

\* a test that lets a cancelled job go on
jobFailed_onlyFailed(status) == status = "Failed"

\* part_001:329
jobFailed(status) == status = "Failed" \/ status = "Cancelled"

\* part_001:318-322: waitForExtractJob() has been called at time 0: the loop
\* test is made and the first poll is under way, or the wait has timed out
RtWait(maxWaitSeconds) ==
  [phase |-> IF withinBudget(0, 0, maxWaitSeconds) THEN "poll" ELSE "thrown",
   maxWaitSeconds |-> maxWaitSeconds, start |-> 0, now |-> 0, tested |-> 0,
   polls |-> <<>>, job |-> Null,
   error |-> IF withinBudget(0, 0, maxWaitSeconds) THEN Null ELSE Some("timed out")]

WaitInit ==
  /\ UtilInit
  /\ rt \in {RtWait(b) : b \in WaitBudgets}

\* part_001:322-334: getExtractJobStatus() ends: it raised, or its job is
\* looked at: returned, raised about, or slept on
waitPoll ==
  /\ rt.phase = "poll"
  /\ \E late \in Lateness :
       \/ rt' = [rt EXCEPT !.now = @ + late,
                           !.polls = Append(@, "raised"),
                           !.phase = "thrown",
                           !.error = Some("status request failed")]
       \/ \E status \in JobStatuses :
            rt' = [rt EXCEPT
                     !.now = @ + late,
                     !.polls = Append(@, status),
                     !.phase = IF jobCompleted(status) THEN "returned"
                               ELSE IF jobFailed(status) THEN "thrown"
                               ELSE "sleep",
                     !.job = IF jobCompleted(status) THEN Some(status) ELSE @,
                     !.error = IF jobCompleted(status) THEN @
                               ELSE IF status = "Failed" THEN Some("failed")
                               ELSE IF status = "Cancelled" THEN Some("cancelled")
                               ELSE @]
  /\ UNCHANGED syncVars

\* part_001:334, 321 and 337: the sleep ends, the loop test is made again and
\* the next poll starts, or the wait times out
waitSleep ==
  /\ rt.phase = "sleep"
  /\ \E late \in Lateness :
       LET now == rt.now + pollIntervalMs + late
           again == withinBudget(now, rt.start, rt.maxWaitSeconds)
       IN rt' = [rt EXCEPT !.now = now,
                           !.tested = now,
                           !.phase = IF again THEN "poll" ELSE "thrown",
                           !.error = IF again THEN @ ELSE Some("timed out")]
  /\ UNCHANGED syncVars

WaitNext ==
  \/ waitPoll
  \/ waitSleep

\* the promises of the status request and of the timer are settled in the end
WaitSpec == WaitInit /\ [][WaitNext]_vars /\ WF_vars(WaitNext)

WaitEnded == rt.phase \in {"returned", "thrown"}

TerminalStatuses == {"Completed", "Failed", "Cancelled"}

\* the status the last poll saw
LastPoll == rt.polls[Len(rt.polls)]

\* what the polls of the wait have seen, and how the wait ended on it
WaitFollowsPolls ==
  /\ \A k \in 1..(Len(rt.polls) - 1) : rt.polls[k] \notin TerminalStatuses \cup {"raised"}
  /\ rt.phase \in {"poll", "sleep"} =>
       \A k \in DOMAIN rt.polls : rt.polls[k] \notin TerminalStatuses
  /\ rt.phase = "poll" => withinBudget(rt.tested, rt.start, rt.maxWaitSeconds)
  /\ rt.phase = "returned" <=> (rt.polls # <<>> /\ LastPoll = "Completed")
  /\ rt.phase = "returned" => rt.job = Some("Completed")
  /\ (rt.polls # <<>> /\ LastPoll = "Failed") =>
       (rt.phase = "thrown" /\ rt.error = Some("failed"))
  /\ (rt.polls # <<>> /\ LastPoll = "Cancelled") =>
       (rt.phase = "thrown" /\ rt.error = Some("cancelled"))
  /\ (rt.phase = "thrown" /\ rt.error = Some("timed out")) <=>
       /\ WaitEnded
       /\ ~withinBudget(rt.tested, rt.start, rt.maxWaitSeconds)
       /\ \A k \in DOMAIN rt.polls : rt.polls[k] \notin TerminalStatuses \cup {"raised"}

\* C39: waitForExtractJob polls until a poll sees a terminal status: it
\* returns the job exactly when a poll saw Completed, raises when a poll saw
\* Failed or Cancelled, raises a timeout when the budget is used up and the
\* job is not terminal, never polls after a terminal status, and it ends
\* whatever the polls see
C39_WaitEndsOnTerminal == []WaitFollowsPolls /\ <>WaitEnded

\* a wait that returned the job after polls that saw it unfinished
C39_Witness ==
  /\ rt.phase = "returned"
  /\ Len(rt.polls) >= 3
  /\ rt.polls[1] = "Queued"
  /\ rt.polls[2] = "Processing"
  /\ LastPoll = "Completed"

====
